---- MODULE Spec2Model ----
(***************************************************************************)
(* Model of passkit's packaging pipeline (src/src/lib.rs): one PassSource, *)
(* the source directory it points at, and the scoped temporary directory   *)
(* of the build_pkpass call in flight.  build_pkpass is modelled stage by  *)
(* stage (pc names the stage that runs next) so that the order of the      *)
(* stages, the early returns of `?` and the release of the TempDir at the  *)
(* end of the call are visible.                                            *)
(***************************************************************************)
EXTENDS FiniteSets, Integers, Sequences, TLC

VARIABLES
    source_dir,     \* the directory named by PassSource.source_directory: name -> entry
    pass_content,   \* PassSource.pass_content : Option<Pass>
    manifest,       \* PassSource.manifest : HashMap<String, String>
    tmp,            \* the TempDir `tmp` of build_pkpass: does it exist on disk, and its files
    pc,             \* position inside build_pkpass ("idle": no call in flight)
    pending,        \* the PassResult the call in flight is about to return
    result,         \* what the most recent build_pkpass call returned
    stages,         \* the stages the current (or most recent) call has executed, in order
    supplied,       \* whether add_pass has been called on this PassSource
    codec,          \* Codec: a Pass, its serde encoding and what decoding that gives back
    builder,        \* Builder: a PassBuilder, and the Pass its finish_<style> call returned
    builds,         \* Concurrent: the build_pkpass calls of several PassSources, by source
    tmp_root,       \* Concurrent: the directories under the system's temporary directory
    colour          \* Colour: the arguments of an rgb call and the String it returned

pipeline_vars ==
    <<source_dir, pass_content, manifest, tmp, pc, pending, result, stages, supplied>>

\* the variables of the other specifications, which the pipeline leaves alone
other_vars == <<codec, builder, builds, tmp_root, colour>>

vars == <<source_dir, pass_content, manifest, tmp, pc, pending, result, stages, supplied,
          codec, builder, builds, tmp_root, colour>>

(***************************************************************************)
(* Bounds                                                                  *)
(***************************************************************************)
NumPasses == 2

(***************************************************************************)
(* Values                                                                  *)
(***************************************************************************)
None == [some |-> FALSE]
Some(v) == [some |-> TRUE, value |-> v]

\* A Pass, reduced to the field that tells two passes apart.
Passes == [serial_number : {ToString(i) : i \in 1..NumPasses}]

\* serde_json::to_string_pretty(&pass)
to_string_pretty(pass) == "{\"serialNumber\": \"" \o pass.serial_number \o "\"}"

\* serde_json::from_slice::<Pass>(&content): the Pass, or the decoder's cause
from_slice(content) ==
    IF \E p \in Passes : to_string_pretty(p) = content
    THEN [ok |-> TRUE,  pass |-> CHOOSE p \in Passes : to_string_pretty(p) = content, cause |-> ""]
    ELSE [ok |-> FALSE, pass |-> [serial_number |-> ""],
          cause |-> IF content = "" THEN "EOF while parsing a value" ELSE "missing field"]

PassFileName == "pass.json"
AssetName == "icon.png"
SubDirName == "en.lproj"
FileNames == {PassFileName, AssetName, SubDirName}

File(content) == [kind |-> "file", content |-> content]
Dir == [kind |-> "dir", content |-> ""]

\* what the source directory may hold under each name
Entries(name) ==
    IF name = PassFileName THEN {File("")} \cup {File(to_string_pretty(p)) : p \in Passes}
    ELSE IF name = AssetName THEN {File(""), File("png")}
    ELSE {Dir}

SourceDirs ==
    UNION {{d \in [names -> UNION {Entries(n) : n \in names}] :
                \A n \in names : d[n] \in Entries(n)} : names \in SUBSET FileNames}

EmptyMap == [k \in {} |-> ""]

\* the value of a specification's variable while another specification runs
Off == [phase |-> "off"]
NoTmp == [exists |-> FALSE, files |-> EmptyMap]

\* PassResult<()> values
Ok == [kind |-> "Ok", cause |-> ""]
Err(kind, cause) == [kind |-> kind, cause |-> cause]
Running == [kind |-> "Running", cause |-> ""]
NotCalled == [kind |-> "NotCalled", cause |-> ""]
IsErr(r) == r.kind \notin {"Ok", "Running", "NotCalled"}

\* format!("{:?}", entry.file_name()): Debug of an OsString is the name in double quotes
\* (none of FileNames holds a character that Debug would escape)
DebugFmt(name) == "\"" \o name \o "\""

\* get_hash: hex SHA-1 of the content: the digest of the empty input, and a symbolic
\* digest, one per content, of anything else
get_hash(content) ==
    IF content = "" THEN "da39a3ee5e6b4b0d3255bfef95601890afd80709"
    ELSE "sha1(" \o content \o ")"

Put(map, key, value) == [k \in DOMAIN map \cup {key} |-> IF k = key THEN value ELSE map[k]]

(***************************************************************************)
(* Init: PassSource::new(source) over any source directory                 *)
(***************************************************************************)
Init ==
    /\ codec = Off /\ builder = Off /\ builds = Off /\ tmp_root = EmptyMap /\ colour = Off
    /\ source_dir \in SourceDirs
    /\ pass_content = None
    /\ manifest = EmptyMap
    /\ tmp = NoTmp
    /\ pc = "idle"
    /\ pending = NotCalled
    /\ result = NotCalled
    /\ stages = <<>>
    /\ supplied = FALSE

(***************************************************************************)
(* The environment: other processes change the source directory            *)
(***************************************************************************)
SourceWrite ==
    /\ \E n \in FileNames : \E e \in Entries(n) :
          /\ IF n \in DOMAIN source_dir THEN source_dir[n] # e ELSE TRUE
          /\ source_dir' = Put(source_dir, n, e)
    /\ UNCHANGED <<pass_content, manifest, tmp, pc, pending, result, stages, supplied>>
    /\ UNCHANGED other_vars

SourceRemove ==
    /\ \E n \in DOMAIN source_dir :
          source_dir' = [k \in DOMAIN source_dir \ {n} |-> source_dir[k]]
    /\ UNCHANGED <<pass_content, manifest, tmp, pc, pending, result, stages, supplied>>
    /\ UNCHANGED other_vars

(***************************************************************************)
(* PassSource                                                              *)
(***************************************************************************)
add_pass ==
    /\ pc = "idle"
    /\ \E pass \in Passes : pass_content' = Some(pass)
    /\ supplied' = TRUE
    /\ UNCHANGED <<source_dir, manifest, tmp, pc, pending, result, stages>>
    /\ UNCHANGED other_vars

is_pass_file_exists_in_source == PassFileName \in DOMAIN source_dir

\* read_file_to_vec(pass_source_file_path()) then serde_json::from_slice;
\* readable: whether the OS lets the file be opened and read
read_pass_file_from_source(readable) ==
    IF ~readable \/ source_dir[PassFileName].kind # "file"
    THEN [ok |-> FALSE, err |-> Err("CantReadEntry", PassFileName), pass |-> [serial_number |-> ""]]
    ELSE LET parsed == from_slice(source_dir[PassFileName].content)
         IN IF parsed.ok
            THEN [ok |-> TRUE, err |-> Ok, pass |-> parsed.pass]
            ELSE [ok |-> FALSE, err |-> Err("CantParsePassFile", parsed.cause), pass |-> parsed.pass]

\* build_pkpass is entered and runs its first statement, self.resolve_pass_content()?
resolve_pass_content ==
    /\ pc = "idle"
    /\ stages' = <<"resolve_pass_content">>
    /\ \E readable \in BOOLEAN :
         IF pass_content = None /\ is_pass_file_exists_in_source
         THEN LET read == read_pass_file_from_source(readable)
              IN IF read.ok
                 THEN /\ pass_content' = Some(read.pass)
                      /\ pending' = Running
                      /\ pc' = "create_tmp_dir"
                 ELSE /\ pending' = read.err
                      /\ pc' = "return"
                      /\ UNCHANGED pass_content
         ELSE /\ pending' = Running
              /\ pc' = "create_tmp_dir"
              /\ UNCHANGED pass_content
    /\ UNCHANGED <<source_dir, manifest, tmp, result, supplied>>
    /\ UNCHANGED other_vars

\* create_tmp_dir whose error is recorded but not returned (no `?`)
create_tmp_dir_continuing ==
    /\ pc = "create_tmp_dir"
    /\ stages' = Append(stages, "create_tmp_dir")
    /\ \E created \in BOOLEAN :
         /\ tmp' = [exists |-> TRUE, files |-> EmptyMap]
         /\ pending' = IF created THEN pending ELSE Err("CantCreateTempDir", "")
         /\ pc' = "copy_source_files_to"
    /\ UNCHANGED <<source_dir, pass_content, manifest, result, supplied>>
    /\ UNCHANGED other_vars

\* let tmp = Self::create_tmp_dir()?
create_tmp_dir ==
    /\ pc = "create_tmp_dir"
    /\ stages' = Append(stages, "create_tmp_dir")
    /\ \E created \in BOOLEAN :
         IF created
         THEN /\ tmp' = [exists |-> TRUE, files |-> EmptyMap]
              /\ pc' = "copy_source_files_to"
              /\ UNCHANGED pending
         ELSE /\ pending' = Err("CantCreateTempDir", "")
              /\ pc' = "return"
              /\ UNCHANGED tmp
    /\ UNCHANGED <<source_dir, pass_content, manifest, result, supplied>>
    /\ UNCHANGED other_vars

\* walk that leaves out what it cannot copy and reports success
walk_skipping(from, listed, unreadable, copied) ==
    LET bad == {n \in DOMAIN from : from[n].kind # "file" \/ n \in unreadable}
    IN [ok |-> listed, files |-> [n \in (IF listed THEN DOMAIN from \ bad ELSE {}) |-> from[n].content]]

\* walk that creates every target file but copies no bytes into it
walk_truncating(from, listed, unreadable, copied) ==
    LET bad == {n \in DOMAIN from : from[n].kind # "file" \/ n \in unreadable}
    IN IF listed /\ bad = {}
       THEN [ok |-> TRUE,  files |-> [n \in DOMAIN from |-> ""]]
       ELSE [ok |-> FALSE, files |-> [n \in (IF listed THEN copied \ bad ELSE {}) |-> ""]]

\* walk(from, to) inside copy_source_files_to: fs::read_dir(from), then fs::copy of each
\* entry in directory order, stopping at the first entry that fails.  fs::copy fails on an
\* entry that is not a regular file and on one the OS refuses to read.  `copied` is the
\* set of entries that came before the failing one in directory order.
walk(from, listed, unreadable, copied) ==
    LET bad == {n \in DOMAIN from : from[n].kind # "file" \/ n \in unreadable}
    IN IF listed /\ bad = {}
       THEN [ok |-> TRUE,  files |-> [n \in DOMAIN from |-> from[n].content]]
       ELSE [ok |-> FALSE, files |-> [n \in (IF listed THEN copied \ bad ELSE {}) |-> from[n].content]]

\* self.copy_source_files_to(tmp.path())?
copy_source_files_to ==
    /\ pc = "copy_source_files_to"
    /\ stages' = Append(stages, "copy_source_files_to")
    /\ \E listed \in BOOLEAN : \E unreadable \in SUBSET DOMAIN source_dir :
       \E copied \in SUBSET DOMAIN source_dir :
         LET walked == walk(source_dir, listed, unreadable, copied)
             staged == [n \in DOMAIN tmp.files \cup DOMAIN walked.files |->
                            IF n \in DOMAIN walked.files THEN walked.files[n] ELSE tmp.files[n]]
         IN /\ tmp' = [tmp EXCEPT !.files = staged]
            /\ IF walked.ok
               THEN /\ pc' = "write_pass_file_to"
                    /\ UNCHANGED pending
               ELSE /\ pending' = Err("CantCopySourceToTemp", "")
                    /\ pc' = "return"
    /\ UNCHANGED <<source_dir, pass_content, manifest, result, supplied>>
    /\ UNCHANGED other_vars

\* self.write_pass_file_to(tmp.path())?
write_pass_file_to ==
    /\ pc = "write_pass_file_to"
    /\ stages' = Append(stages, "write_pass_file_to")
    /\ \E serialized \in BOOLEAN : \E written \in BOOLEAN :
         IF ~is_pass_file_exists_in_source /\ pass_content.some
         THEN IF ~serialized
              THEN /\ pending' = Err("CantSerializePass", "")
                   /\ pc' = "return"
                   /\ UNCHANGED tmp
              ELSE IF ~written
              THEN /\ pending' = Err("CantWritePassFile", "io error")
                   /\ pc' = "return"
                   /\ UNCHANGED tmp
              ELSE /\ tmp' = [tmp EXCEPT !.files =
                                 Put(tmp.files, PassFileName, to_string_pretty(pass_content.value))]
                   /\ pc' = "calculate_hashes_of"
                   /\ UNCHANGED pending
         ELSE /\ pc' = "calculate_hashes_of"
              /\ UNCHANGED <<tmp, pending>>
    /\ UNCHANGED <<source_dir, pass_content, manifest, result, supplied>>
    /\ UNCHANGED other_vars

\* enumerate that passes over the files it cannot read and returns the rest
enumerate_skipping(files, listed, unreadable) ==
    [ok |-> listed,
     manifest |-> [key \in {DebugFmt(n) : n \in DOMAIN files \ unreadable} |->
                      get_hash(files[CHOOSE n \in DOMAIN files : DebugFmt(n) = key])]]

\* enumerate that leaves out the files that hold no bytes
enumerate_skipping_empty(files, listed, unreadable) ==
    IF ~listed \/ (DOMAIN files \cap unreadable) # {}
    THEN [ok |-> FALSE, manifest |-> EmptyMap]
    ELSE [ok |-> TRUE,
          manifest |-> [key \in {DebugFmt(n) : n \in {m \in DOMAIN files : files[m] # ""}} |->
                           get_hash(files[CHOOSE n \in DOMAIN files : DebugFmt(n) = key])]]

\* enumerate(dir) inside calculate_hashes_of: a local Manifest with one entry per regular
\* file of dir, keyed by the Debug rendering of its file name; the first read that fails
\* returns the error and drops the local Manifest.
enumerate(files, listed, unreadable) ==
    IF ~listed \/ (DOMAIN files \cap unreadable) # {}
    THEN [ok |-> FALSE, manifest |-> EmptyMap]
    ELSE [ok |-> TRUE,
          manifest |-> [key \in {DebugFmt(n) : n \in DOMAIN files} |->
                           get_hash(files[CHOOSE n \in DOMAIN files : DebugFmt(n) = key])]]

\* self.calculate_hashes_of(tmp.path())?; Ok(())
calculate_hashes_of ==
    /\ pc = "calculate_hashes_of"
    /\ stages' = Append(stages, "calculate_hashes_of")
    /\ \E listed \in BOOLEAN : \E unreadable \in SUBSET DOMAIN tmp.files :
         LET hashed == enumerate(tmp.files, listed, unreadable)
         IN IF hashed.ok
            THEN /\ manifest' = hashed.manifest
                 /\ pending' = Ok
            ELSE /\ pending' = Err("CantCalculateHashes", "")
                 /\ UNCHANGED manifest
    /\ pc' = "return"
    /\ UNCHANGED <<source_dir, pass_content, tmp, result, supplied>>
    /\ UNCHANGED other_vars

\* a return that keeps the directory when the call failed (TempDir::into_path on the error path)
build_pkpass_return_leaking ==
    /\ pc = "return"
    /\ tmp' = IF pending = Ok THEN NoTmp ELSE tmp
    /\ result' = pending
    /\ pending' = NotCalled
    /\ pc' = "idle"
    /\ UNCHANGED <<source_dir, pass_content, manifest, stages, supplied>>
    /\ UNCHANGED other_vars

\* build_pkpass returns: `tmp` goes out of scope, and dropping a TempDir removes the
\* directory and everything in it; the caller receives the pending PassResult
build_pkpass_return ==
    /\ pc = "return"
    /\ tmp' = NoTmp
    /\ result' = pending
    /\ pending' = NotCalled
    /\ pc' = "idle"
    /\ UNCHANGED <<source_dir, pass_content, manifest, stages, supplied>>
    /\ UNCHANGED other_vars

Next ==
    \/ SourceWrite
    \/ SourceRemove
    \/ add_pass
    \/ resolve_pass_content
    \/ create_tmp_dir
    \/ copy_source_files_to
    \/ write_pass_file_to
    \/ calculate_hashes_of
    \/ build_pkpass_return

Spec == Init /\ [][Next]_vars

TypeOK ==
    /\ source_dir \in SourceDirs
    /\ pass_content \in {None} \cup {Some(p) : p \in Passes}
    /\ pc \in {"idle", "create_tmp_dir", "copy_source_files_to", "write_pass_file_to",
               "calculate_hashes_of", "return"}
    /\ tmp.exists \in BOOLEAN
    /\ supplied \in BOOLEAN

(***************************************************************************)
(* Properties                                                              *)
(***************************************************************************)
Staged(dir) == [n \in DOMAIN dir |-> dir[n].content]

\* the stages of build_pkpass in program order
StageOrder == <<"resolve_pass_content", "create_tmp_dir", "copy_source_files_to",
                "write_pass_file_to", "calculate_hashes_of">>

\* the stage that raises each PassCreateError
ErrorStage(kind) ==
    CASE kind \in {"CantReadEntry", "CantParsePassFile"} -> "resolve_pass_content"
      [] kind = "CantCreateTempDir" -> "create_tmp_dir"
      [] kind = "CantCopySourceToTemp" -> "copy_source_files_to"
      [] kind \in {"CantSerializePass", "CantWritePassFile"} -> "write_pass_file_to"
      [] kind = "CantCalculateHashes" -> "calculate_hashes_of"
      [] OTHER -> "none"

IsPrefix(s, t) == Len(s) <= Len(t) /\ \A i \in 1..Len(s) : s[i] = t[i]

\* C1: a build_pkpass call entered with no supplied Pass and no pass.json in the source
\* directory fails at once with PassContentNotFound.
C1_ContentMissingFails ==
    [][(pc = "idle" /\ pc' # "idle" /\ pass_content = None /\ ~is_pass_file_exists_in_source)
         => pending'.kind = "PassContentNotFound"]_vars

\* C2: when a Pass was supplied with add_pass and the source directory holds a pass.json,
\* a build that is about to return Ok has the encoding of the supplied Pass as the
\* workspace's pass.json, and that is what the manifest's pass.json entry is the hash of.
C2_SuppliedPassWins ==
    (pc = "return" /\ pending = Ok /\ supplied /\ is_pass_file_exists_in_source)
      => /\ PassFileName \in DOMAIN tmp.files
         /\ tmp.files[PassFileName] = to_string_pretty(pass_content.value)
         /\ DebugFmt(PassFileName) \in DOMAIN manifest
         /\ manifest[DebugFmt(PassFileName)] = get_hash(to_string_pretty(pass_content.value))

\* C3: whenever no build_pkpass call is in flight the temporary directory does not exist,
\* whatever the last call returned; and a call that is returning an error raised before
\* or by create_tmp_dir has no directory either.
C3_WorkspaceReleased ==
    /\ pc = "idle" => tmp = NoTmp
    /\ pc = "create_tmp_dir" => ~tmp.exists
    /\ (pc = "return" /\ Len(stages) <= 2) => ~tmp.exists

C3_Witness ==
    /\ pc = "idle"
    /\ result.kind \in {"CantCopySourceToTemp", "CantWritePassFile", "CantCalculateHashes"}
    /\ ~tmp.exists

\* the pipeline states of the design that a call has passed through, read off the stages
\* it has completed: Created on entry, ContentResolved once resolve_pass_content has
\* returned Ok, AssetsStaged once the copy and the pass file write have, ManifestComputed
\* once calculate_hashes_of has.  build_pkpass has no signing and no archiving stage.
Completed ==
    IF IsErr(pending) \/ (pc = "idle" /\ IsErr(result)) THEN Len(stages) - 1 ELSE Len(stages)

PipelineStates ==
    <<"Created">>
       \o (IF Completed >= 1 THEN <<"ContentResolved">> ELSE <<>>)
       \o (IF Completed >= 4 THEN <<"AssetsStaged">> ELSE <<>>)
       \o (IF Completed >= 5 THEN <<"ManifestComputed">> ELSE <<>>)

\* C4: a call that has returned Ok has passed through Created, ContentResolved,
\* AssetsStaged, ManifestComputed, Signed and Archived, in that order, each once.
C4_SuccessPassesAllStates ==
    (pc = "idle" /\ result = Ok)
      => PipelineStates = <<"Created", "ContentResolved", "AssetsStaged",
                            "ManifestComputed", "Signed", "Archived">>

\* C5: fail-fast.  The stages run in program order, each at most once; an error is pending
\* only while the call is returning, and it is an error of the last stage that ran; while
\* an error is pending no stage runs, nothing is written to the workspace or the manifest,
\* and the call returns exactly that error.
C5_FailFast ==
    /\ [](IsPrefix(stages, StageOrder))
    /\ [](IsErr(pending) => (pc = "return" /\ ErrorStage(pending.kind) = stages[Len(stages)]))
    /\ [][IsErr(pending) => /\ stages' = stages
                            /\ manifest' = manifest
                            /\ pass_content' = pass_content
                            /\ (tmp' = tmp \/ tmp' = NoTmp)
                            /\ (pc' # pc => (pc' = "idle" /\ result' = pending))]_vars

C5_Witness ==
    /\ pc = "idle"
    /\ result.kind = "CantCopySourceToTemp"
    /\ stages = <<"resolve_pass_content", "create_tmp_dir", "copy_source_files_to">>

\* C6: when a build is about to return Ok, the manifest's keys are exactly the names of
\* the files of the workspace other than the pass definition, the manifest and the signature.
C6_ManifestKeysAreAssetNames ==
    (pc = "return" /\ pending = Ok)
      => DOMAIN manifest = DOMAIN tmp.files \ {PassFileName, "manifest.json", "signature"}

\* C7: a copy_source_files_to that succeeds leaves in the workspace exactly the entries of
\* the source directory, under their names and with their content; and write_pass_file_to
\* adds to them at most pass.json, holding the encoding of the resolved Pass.
C7_StagingCopiesSource ==
    /\ [][(pc = "copy_source_files_to" /\ pc' = "write_pass_file_to")
            => tmp'.files = Staged(source_dir)]_vars
    /\ [][pc = "write_pass_file_to"
            => \A n \in DOMAIN tmp'.files :
                  \/ n \in DOMAIN tmp.files /\ tmp'.files[n] = tmp.files[n]
                  \/ /\ n = PassFileName
                     /\ pass_content.some
                     /\ tmp'.files[n] = to_string_pretty(pass_content.value)]_vars

C7_Witness ==
    /\ pc = "write_pass_file_to"
    /\ DOMAIN tmp.files = {PassFileName, AssetName}
    /\ tmp.files[AssetName] = "png"

\* C8: calculate_hashes_of either returns Ok with a manifest that has an entry for every
\* file of the workspace, or fails with CantCalculateHashes and leaves the PassSource's
\* manifest exactly as it was before the pass: no entry computed during a failed pass is
\* ever stored.
C8_NoPartialManifest ==
    [][(pc = "calculate_hashes_of" /\ pc' # pc)
         => IF pending' = Ok
            THEN /\ DOMAIN manifest' = {DebugFmt(n) : n \in DOMAIN tmp.files}
                 /\ \A n \in DOMAIN tmp.files : manifest'[DebugFmt(n)] = get_hash(tmp.files[n])
            ELSE /\ pending' = Err("CantCalculateHashes", "")
                 /\ manifest' = manifest]_vars

C8_Witness ==
    /\ pc = "return"
    /\ pending.kind = "CantCalculateHashes"
    /\ DOMAIN tmp.files = {PassFileName, AssetName}
    /\ manifest = EmptyMap

\* C9: when the most recent build_pkpass call returned an error, the PassSource holds no
\* manifest entries.
C9_ManifestDiscardedOnFailure ==
    (pc = "idle" /\ IsErr(result)) => manifest = EmptyMap

\* C10 as stated: copy_source_files_to never goes on to the next stage with a source entry
\* missing from the workspace, and when an entry is missing it fails with
\* CantCopySourceToTemp naming an entry that was not copied.
C10_CopyFailureNamesEntry ==
    [][(pc = "copy_source_files_to" /\ pc' # pc)
         => /\ pc' = "write_pass_file_to" => DOMAIN source_dir \subseteq DOMAIN tmp'.files
            /\ (DOMAIN source_dir \ DOMAIN tmp'.files) # {}
                 => /\ pending'.kind = "CantCopySourceToTemp"
                    /\ pending'.cause \in DOMAIN source_dir \ DOMAIN tmp'.files]_vars

\* C10 as amended: copy_source_files_to never goes on to the next stage with a source entry
\* missing from the workspace, and when an entry is missing the call is returning
\* CantCopySourceToTemp, an error that carries no entry name.
C10_CopyFailureNeverSkips ==
    [][(pc = "copy_source_files_to" /\ pc' # pc)
         => /\ pc' = "write_pass_file_to" => DOMAIN source_dir \subseteq DOMAIN tmp'.files
            /\ (DOMAIN source_dir \ DOMAIN tmp'.files) # {}
                 => /\ pending' = Err("CantCopySourceToTemp", "")
                    /\ pc' = "return"]_vars

C10_Witness ==
    /\ pc = "return"
    /\ pending = Err("CantCopySourceToTemp", "")
    /\ SubDirName \in DOMAIN source_dir
    /\ DOMAIN tmp.files = {AssetName}

\* C11 as stated: a build_pkpass call on a PassSource to which no Pass was supplied, entered
\* while the source directory's pass.json is a file that does not decode, returns at once,
\* with no workspace created: CantParsePassFile carrying the decoder's cause (or
\* CantReadEntry when the file could not be read at all).
C11_UndecodablePassFileFails ==
    [][(/\ pc = "idle" /\ pc' # "idle"
        /\ ~supplied
        /\ is_pass_file_exists_in_source
        /\ source_dir[PassFileName].kind = "file"
        /\ ~from_slice(source_dir[PassFileName].content).ok)
         => /\ pc' = "return"
            /\ ~tmp'.exists
            /\ pending' \in {Err("CantParsePassFile",
                                 from_slice(source_dir[PassFileName].content).cause),
                             Err("CantReadEntry", PassFileName)}]_vars

\* what a build_pkpass call that returned Ok has produced besides self.manifest: the
\* function ends after calculate_hashes_of, so no signature and no archive
Artifacts == [signature |-> None, archive |-> None]

\* C15: after a build that returned Ok there is one archive at the destination, and its
\* entries are the pass definition, the staged assets, the manifest and the signature.
C15_ArchiveProduced ==
    (pc = "idle" /\ result = Ok)
      => /\ Artifacts.archive.some
         /\ DOMAIN Artifacts.archive.value =
               DOMAIN manifest \cup {PassFileName, "manifest.json", "signature"}

\* C16: after a build that returned Ok there is a signature, and the bytes it was computed
\* over are the bytes written as the manifest entry.
C16_SignatureOverManifestBytes ==
    (pc = "idle" /\ result = Ok)
      => /\ Artifacts.signature.some
         /\ Artifacts.archive.some
         /\ Artifacts.signature.value.signed = Artifacts.archive.value["manifest.json"]

\* C17: once copy_source_files_to has completed, the workspace that write_pass_file_to
\* hands to the hashing stage is determined by the staged snapshot and the resolved Pass:
\* the snapshot itself when it holds a pass.json or there is no Pass, and otherwise the
\* snapshot with the encoding of the Pass added as pass.json.
C17_NoRereadAfterStaging ==
    [][(pc = "write_pass_file_to" /\ pc' = "calculate_hashes_of")
         => tmp'.files = IF PassFileName \in DOMAIN tmp.files \/ ~pass_content.some
                         THEN tmp.files
                         ELSE Put(tmp.files, PassFileName,
                                  to_string_pretty(pass_content.value))]_vars

\* C19: when a build is about to return Ok, every file of the workspace has a manifest
\* entry whose value is the SHA-1 of that file's bytes; for a file of zero bytes it is
\* the digest of the empty input.
C19_EveryFileHashed ==
    (pc = "return" /\ pending = Ok)
      => \A n \in DOMAIN tmp.files :
            /\ DebugFmt(n) \in DOMAIN manifest
            /\ manifest[DebugFmt(n)] = get_hash(tmp.files[n])
            /\ tmp.files[n] = ""
                 => manifest[DebugFmt(n)] = "da39a3ee5e6b4b0d3255bfef95601890afd80709"

C19_Witness ==
    /\ pc = "return"
    /\ pending = Ok
    /\ DOMAIN tmp.files = {PassFileName, AssetName}
    /\ tmp.files[AssetName] = ""
    /\ tmp.files[PassFileName] # ""

\* C20: on a PassSource to which no Pass was ever supplied, a build_pkpass call entered
\* while the source directory holds a pass.json file gets past resolve_pass_content only
\* if that file decodes, and then with the Pass decoded from it.
C20_ResolvedAnewEachBuild ==
    [][(/\ pc = "idle" /\ pc' = "create_tmp_dir"
        /\ ~supplied
        /\ is_pass_file_exists_in_source
        /\ source_dir[PassFileName].kind = "file")
         => /\ from_slice(source_dir[PassFileName].content).ok
            /\ pass_content' = Some(from_slice(source_dir[PassFileName].content).pass)]_vars

(***************************************************************************)
(* Codec: the serde encoding and decoding of a Pass (src/src/pass.rs,      *)
(* src/src/field.rs).  A JSON value is a tagged record, a JSON object a    *)
(* function from its keys.  Of Pass and VisualAppearance the lists of      *)
(* beacons, locations and barcodes are left out; they carry the same       *)
(* attributes as associated_store_identifiers.                             *)
(***************************************************************************)
JStr(s) == [t |-> "str", payload |-> s]
JInt(i) == [t |-> "int", payload |-> i]
JFloat(x) == [t |-> "float", payload |-> x]
JBool(b) == [t |-> "bool", payload |-> b]
JNull == [t |-> "null", payload |-> ""]
JArr(seq) == [t |-> "arr", payload |-> seq]
JObj(map) == [t |-> "obj", payload |-> map]

\* the object with the given <<key, value>> entries
Obj(entries) == [k \in {e[1] : e \in entries} |-> (CHOOSE e \in entries : e[1] = k)[2]]
Entries_of(map) == {<<k, map[k]>> : k \in DOMAIN map}

\* #[serde(skip_serializing_if = "Option::is_none")] on an Option<String>
SkipNone(key, opt) == IF opt.some THEN {<<key, JStr(opt.value)>>} ELSE {}
\* #[serde(skip_serializing_if = "is_false")]
SkipFalse(key, flag) == IF flag THEN {<<key, JBool(TRUE)>>} ELSE {}

\* a key of a struct being decoded: its decoded value, or the default when the key is
\* missing and the field has #[serde(default)]; None when the value does not decode
GetOr(map, key, Dec(_), default) == IF key \in DOMAIN map THEN Dec(map[key]) ELSE Some(default)
\* a key without a default: a missing key is an error
Get(map, key, Dec(_)) == IF key \in DOMAIN map THEN Dec(map[key]) ELSE None

de_String(j) == IF j.t = "str" THEN Some(j.payload) ELSE None
de_i32(j) == IF j.t = "int" THEN Some(j.payload) ELSE None
de_bool(j) == IF j.t = "bool" THEN Some(j.payload) ELSE None
de_OptionString(j) ==
    IF j.t = "null" THEN Some(None) ELSE IF j.t = "str" THEN Some(Some(j.payload)) ELSE None
de_Seq(Dec(_), j) ==
    IF j.t = "arr" /\ \A i \in 1..Len(j.payload) : Dec(j.payload[i]).some
    THEN Some([i \in 1..Len(j.payload) |-> Dec(j.payload[i]).value])
    ELSE None

\* a unit-variant enum whose variants are renamed to prefix + variant
ser_Enum(prefix, variant) == JStr(prefix \o variant)
de_Enum(prefix, variants, j) ==
    IF j.t = "str" /\ \E x \in variants : prefix \o x = j.payload
    THEN Some(CHOOSE x \in variants : prefix \o x = j.payload)
    ELSE None

TextAlignments == {"Left", "Center", "Right", "Natural"}
DateTimeStyles == {"None", "Short", "Medium", "Long", "Full"}
NumberStyles == {"Decimal", "Percent", "Scientific", "SpellOut"}
TransitTypes == {"Air", "Boat", "Bus", "Generic", "Train"}
de_TextAlignment(j) == de_Enum("PKTextAlignment", TextAlignments, j)
de_DateTimeStyle(j) == de_Enum("PKDateStyle", DateTimeStyles, j)
de_NumberStyle(j) == de_Enum("PKNumberStyle", NumberStyles, j)
de_TransitType(j) == de_Enum("PKTransitType", TransitTypes, j)

\* enum Value, #[serde(untagged)]: encoded as the bare payload, decoded as the first
\* variant, in declaration order String, Int, Float, that accepts the JSON value
ValueString(s) == [t |-> "String", payload |-> s]
ValueInt(i) == [t |-> "Int", payload |-> i]
ValueFloat(x) == [t |-> "Float", payload |-> x]
ser_Value(value) ==
    CASE value.t = "String" -> JStr(value.payload)
      [] value.t = "Int" -> JInt(value.payload)
      [] value.t = "Float" -> JFloat(value.payload)
de_Value(j) ==
    IF j.t = "str" THEN Some(ValueString(j.payload))
    ELSE IF j.t = "int" THEN Some(ValueInt(j.payload))
    ELSE IF j.t = "float" THEN Some(ValueFloat(j.payload))
    ELSE None

\* FieldDate::default() and FieldNumber::default()
DefaultFieldDate ==
    [date_style |-> "Medium", ignores_time_zone |-> FALSE, is_relative |-> FALSE,
     time_style |-> "Medium"]
DefaultFieldNumber == [currency_code |-> "", number_style |-> "Decimal"]

ser_FieldDate(date) ==
    {<<"dateStyle", ser_Enum("PKDateStyle", date.date_style)>>}
      \cup SkipFalse("ignoresTimeZone", date.ignores_time_zone)
      \cup SkipFalse("isRelative", date.is_relative)
      \cup {<<"timeStyle", ser_Enum("PKDateStyle", date.time_style)>>}
\* #[serde(default)] on the struct: every missing key takes its default
de_FieldDate(map) ==
    LET date_style == GetOr(map, "dateStyle", de_DateTimeStyle, DefaultFieldDate.date_style)
        ignores == GetOr(map, "ignoresTimeZone", de_bool, FALSE)
        relative == GetOr(map, "isRelative", de_bool, FALSE)
        time_style == GetOr(map, "timeStyle", de_DateTimeStyle, DefaultFieldDate.time_style)
    IN IF date_style.some /\ ignores.some /\ relative.some /\ time_style.some
       THEN Some([date_style |-> date_style.value, ignores_time_zone |-> ignores.value,
                  is_relative |-> relative.value, time_style |-> time_style.value])
       ELSE None

ser_FieldNumber(number) ==
    {<<"currencyCode", JStr(number.currency_code)>>,
     <<"numberStyle", ser_Enum("PKNumberStyle", number.number_style)>>}
de_FieldNumber(map) ==
    LET code == GetOr(map, "currencyCode", de_String, DefaultFieldNumber.currency_code)
        style == GetOr(map, "numberStyle", de_NumberStyle, DefaultFieldNumber.number_style)
    IN IF code.some /\ style.some
       THEN Some([currency_code |-> code.value, number_style |-> style.value])
       ELSE None

\* Field::default()
DefaultField ==
    [attributed_value |-> None, change_message |-> None, data_detector_types |-> None,
     key |-> "", label |-> None, text_alignment |-> "Natural", value |-> ValueString(""),
     date |-> None, number |-> None]

\* Serialize for Field: date and number are #[serde(flatten)] Options, so a None adds no
\* key and a Some adds the keys of the block to the field's own object
ser_Field(field) ==
    JObj(Obj(
        SkipNone("attributedValue", field.attributed_value)
          \cup SkipNone("changeMessage", field.change_message)
          \cup (IF field.data_detector_types.some
                THEN {<<"dataDetectorTypes",
                        JArr([i \in 1..Len(field.data_detector_types.value) |->
                                ser_Enum("PKDataDetectorType", field.data_detector_types.value[i])])>>}
                ELSE {})
          \cup {<<"key", JStr(field.key)>>}
          \cup SkipNone("label", field.label)
          \cup (IF field.text_alignment = "Natural" THEN {}
                ELSE {<<"textAlignment", ser_Enum("PKTextAlignment", field.text_alignment)>>})
          \cup {<<"value", ser_Value(field.value)>>}
          \cup (IF field.date.some THEN ser_FieldDate(field.date.value) ELSE {})
          \cup (IF field.number.some THEN ser_FieldNumber(field.number.value) ELSE {})))

de_DataDetectorType(j) ==
    de_Enum("PKDataDetectorType", {"PhoneNumber", "Link", "Address", "CalendarEvent"}, j)
de_OptionDetectors(j) ==
    IF j.t = "null" THEN Some(None)
    ELSE IF de_Seq(de_DataDetectorType, j).some
         THEN Some(Some(de_Seq(de_DataDetectorType, j).value))
         ELSE None

\* Deserialize for Field.  A flattened Option<T> is decoded by trying T on the keys the
\* struct itself did not take: Some(T) when T decodes, None when it does not.  FieldDate
\* and FieldNumber have #[serde(default)], so they decode from any keys, even from none.
de_Field(j) ==
    IF j.t # "obj" THEN None
    ELSE LET map == j.payload
             attributed == GetOr(map, "attributedValue", de_OptionString, None)
             change == GetOr(map, "changeMessage", de_OptionString, None)
             detectors == GetOr(map, "dataDetectorTypes", de_OptionDetectors, None)
             key == GetOr(map, "key", de_String, "")
             label == GetOr(map, "label", de_OptionString, None)
             alignment == GetOr(map, "textAlignment", de_TextAlignment, "Natural")
             value == GetOr(map, "value", de_Value, ValueString(""))
         IN IF /\ attributed.some /\ change.some /\ detectors.some /\ key.some
               /\ label.some /\ alignment.some /\ value.some
            THEN Some([attributed_value |-> attributed.value, change_message |-> change.value,
                       data_detector_types |-> detectors.value, key |-> key.value,
                       label |-> label.value, text_alignment |-> alignment.value,
                       value |-> value.value,
                       date |-> de_FieldDate(map), number |-> de_FieldNumber(map)])
            ELSE None

\* Structure::default()
DefaultStructure ==
    [auxiliary_fields |-> <<>>, back_fields |-> <<>>, header_fields |-> <<>>,
     primary_fields |-> <<>>, secondary_fields |-> <<>>, transit_type |-> None]

\* #[serde(skip_serializing_if = "Vec::is_empty")] on a Vec<Field>
SkipEmptyFields(key, fields) ==
    IF fields = <<>> THEN {}
    ELSE {<<key, JArr([i \in 1..Len(fields) |-> ser_Field(fields[i])])>>}
de_Fields(j) == de_Seq(de_Field, j)

ser_Structure(structure) ==
    JObj(Obj(
        SkipEmptyFields("auxiliaryFields", structure.auxiliary_fields)
          \cup SkipEmptyFields("backFields", structure.back_fields)
          \cup SkipEmptyFields("headerFields", structure.header_fields)
          \cup SkipEmptyFields("primaryFields", structure.primary_fields)
          \cup SkipEmptyFields("secondaryFields", structure.secondary_fields)
          \cup (IF structure.transit_type.some
                THEN {<<"transitType", ser_Enum("PKTransitType", structure.transit_type.value)>>}
                ELSE {})))

de_OptionTransitType(j) ==
    IF j.t = "null" THEN Some(None)
    ELSE IF de_TransitType(j).some THEN Some(Some(de_TransitType(j).value)) ELSE None

de_Structure(j) ==
    IF j.t # "obj" THEN None
    ELSE LET map == j.payload
             auxiliary == GetOr(map, "auxiliaryFields", de_Fields, <<>>)
             back == GetOr(map, "backFields", de_Fields, <<>>)
             header == GetOr(map, "headerFields", de_Fields, <<>>)
             primary == GetOr(map, "primaryFields", de_Fields, <<>>)
             secondary == GetOr(map, "secondaryFields", de_Fields, <<>>)
             transit == GetOr(map, "transitType", de_OptionTransitType, None)
         IN IF /\ auxiliary.some /\ back.some /\ header.some /\ primary.some
               /\ secondary.some /\ transit.some
            THEN Some([auxiliary_fields |-> auxiliary.value, back_fields |-> back.value,
                       header_fields |-> header.value, primary_fields |-> primary.value,
                       secondary_fields |-> secondary.value, transit_type |-> transit.value])
            ELSE None

\* enum Style, #[serde(rename_all = "camelCase")], flattened into Pass: one key, named
\* after the variant, holding the Structure
StyleVariants == {"BoardingPass", "Coupon", "EventTicket", "Generic", "StoreCard"}
StyleKey(variant) ==
    CASE variant = "BoardingPass" -> "boardingPass"
      [] variant = "Coupon" -> "coupon"
      [] variant = "EventTicket" -> "eventTicket"
      [] variant = "Generic" -> "generic"
      [] variant = "StoreCard" -> "storeCard"
ser_Style(style) == {<<StyleKey(style.variant), ser_Structure(style.structure)>>}
\* (the documents decoded here hold at most one style key)
de_Style(map) ==
    IF \E x \in StyleVariants : StyleKey(x) \in DOMAIN map
    THEN LET variant == CHOOSE x \in StyleVariants : StyleKey(x) \in DOMAIN map
             structure == de_Structure(map[StyleKey(variant)])
         IN IF structure.some
            THEN Some([variant |-> variant, structure |-> structure.value])
            ELSE None
    ELSE None

\* VisualAppearance::default()
DefaultVisualAppearance ==
    [background_color |-> None, foreground_color |-> None, grouping_identifier |-> None,
     label_color |-> None, logo_text |-> None, suppress_strip_shine |-> FALSE]

ser_VisualAppearance(visual) ==
    SkipNone("backgroundColor", visual.background_color)
      \cup SkipNone("foregroundColor", visual.foreground_color)
      \cup SkipNone("groupingIdentifier", visual.grouping_identifier)
      \cup SkipNone("labelColor", visual.label_color)
      \cup SkipNone("logoText", visual.logo_text)
      \cup SkipFalse("suppressStripShine", visual.suppress_strip_shine)
de_VisualAppearance(map) ==
    LET background == GetOr(map, "backgroundColor", de_OptionString, None)
        foreground == GetOr(map, "foregroundColor", de_OptionString, None)
        grouping == GetOr(map, "groupingIdentifier", de_OptionString, None)
        label == GetOr(map, "labelColor", de_OptionString, None)
        logo == GetOr(map, "logoText", de_OptionString, None)
        shine == GetOr(map, "suppressStripShine", de_bool, FALSE)
    IN IF /\ background.some /\ foreground.some /\ grouping.some
          /\ label.some /\ logo.some /\ shine.some
       THEN Some([background_color |-> background.value, foreground_color |-> foreground.value,
                  grouping_identifier |-> grouping.value, label_color |-> label.value,
                  logo_text |-> logo.value, suppress_strip_shine |-> shine.value])
       ELSE None

\* WebService: both keys are required
ser_WebService(service) ==
    {<<"authenticationToken", JStr(service.authentication_token)>>,
     <<"webServiceURL", JStr(service.web_service_url)>>}
de_WebService(map) ==
    LET token == Get(map, "authenticationToken", de_String)
        url == Get(map, "webServiceURL", de_String)
    IN IF token.some /\ url.some
       THEN Some([authentication_token |-> token.value, web_service_url |-> url.value])
       ELSE None

\* NFC: encryption_public_key has #[serde(default)] and no skip_serializing_if, so a None
\* is written as null
ser_NFC(nfc) ==
    JObj(Obj({<<"message", JStr(nfc.message)>>,
              <<"encryptionPublicKey",
                IF nfc.encryption_public_key.some THEN JStr(nfc.encryption_public_key.value)
                ELSE JNull>>}))
de_NFC(j) ==
    IF j.t # "obj" THEN None
    ELSE LET message == Get(j.payload, "message", de_String)
             key == GetOr(j.payload, "encryptionPublicKey", de_OptionString, None)
         IN IF message.some /\ key.some
            THEN Some([message |-> message.value, encryption_public_key |-> key.value])
            ELSE None
de_OptionNFC(j) ==
    IF j.t = "null" THEN Some(None)
    ELSE IF de_NFC(j).some THEN Some(Some(de_NFC(j).value)) ELSE None

de_OptionU32(j) ==
    IF j.t = "null" THEN Some(None)
    ELSE IF j.t = "int" /\ j.payload >= 0 THEN Some(Some(j.payload)) ELSE None
de_VecI32(j) == de_Seq(de_i32, j)
de_UserInfo(j) ==
    IF j.t = "obj" /\ \A k \in DOMAIN j.payload : j.payload[k].t = "str"
    THEN Some([k \in DOMAIN j.payload |-> j.payload[k].payload])
    ELSE None

\* Serialize for Pass: the encoding as a JSON object
ser_Pass(pass) ==
    Obj({<<"description", JStr(pass.description)>>,
         <<"formatVersion", JInt(pass.format_version)>>,
         <<"organizationName", JStr(pass.organization_name)>>,
         <<"passTypeIdentifier", JStr(pass.pass_type_identifier)>>,
         <<"serialNumber", JStr(pass.serial_number)>>,
         <<"teamIdentifier", JStr(pass.team_identifier)>>}
          \cup SkipNone("appLaunchURL", pass.app_launch_url)
          \cup (IF pass.associated_store_identifiers = <<>> THEN {}
                ELSE {<<"associatedStoreIdentifiers",
                        JArr([i \in 1..Len(pass.associated_store_identifiers) |->
                                JInt(pass.associated_store_identifiers[i])])>>})
          \cup {<<"userInfo", JObj([k \in DOMAIN pass.user_info |-> JStr(pass.user_info[k])])>>}
          \cup SkipNone("expirationDate", pass.expiration_date)
          \cup SkipFalse("voided", pass.voided)
          \cup (IF pass.max_distance.some
                THEN {<<"maxDistance", JInt(pass.max_distance.value)>>} ELSE {})
          \cup SkipNone("relevantDate", pass.relevant_date)
          \cup ser_Style(pass.style)
          \cup (IF pass.visual.some THEN ser_VisualAppearance(pass.visual.value) ELSE {})
          \cup (IF pass.web_service.some THEN ser_WebService(pass.web_service.value) ELSE {})
          \cup (IF pass.nfc.some THEN {<<"nfc", ser_NFC(pass.nfc.value)>>} ELSE {}))

\* Deserialize for Pass: the six leading fields and the style are required; visual and
\* web_service are flattened Options (see de_Field)
de_Pass(map) ==
    LET description == Get(map, "description", de_String)
        version == Get(map, "formatVersion", de_i32)
        organization == Get(map, "organizationName", de_String)
        type_identifier == Get(map, "passTypeIdentifier", de_String)
        serial == Get(map, "serialNumber", de_String)
        team == Get(map, "teamIdentifier", de_String)
        launch == GetOr(map, "appLaunchURL", de_OptionString, None)
        stores == GetOr(map, "associatedStoreIdentifiers", de_VecI32, <<>>)
        info == GetOr(map, "userInfo", de_UserInfo, EmptyMap)
        expiration == GetOr(map, "expirationDate", de_OptionString, None)
        voided == GetOr(map, "voided", de_bool, FALSE)
        distance == GetOr(map, "maxDistance", de_OptionU32, None)
        relevant == GetOr(map, "relevantDate", de_OptionString, None)
        style == de_Style(map)
        nfc == GetOr(map, "nfc", de_OptionNFC, None)
    IN IF /\ description.some /\ version.some /\ organization.some /\ type_identifier.some
          /\ serial.some /\ team.some /\ launch.some /\ stores.some /\ info.some
          /\ expiration.some /\ voided.some /\ distance.some /\ relevant.some
          /\ style.some /\ nfc.some
       THEN Some([description |-> description.value, format_version |-> version.value,
                  organization_name |-> organization.value,
                  pass_type_identifier |-> type_identifier.value,
                  serial_number |-> serial.value, team_identifier |-> team.value,
                  app_launch_url |-> launch.value,
                  associated_store_identifiers |-> stores.value,
                  user_info |-> info.value, expiration_date |-> expiration.value,
                  voided |-> voided.value, max_distance |-> distance.value,
                  relevant_date |-> relevant.value, style |-> style.value,
                  visual |-> de_VisualAppearance(map), web_service |-> de_WebService(map),
                  nfc |-> nfc.value])
       ELSE None

(***************************************************************************)
(* Codec: the passes the round trip is run on                              *)
(***************************************************************************)
\* most fields a Structure's list holds
MaxFields == 1

\* impl From<(TKey, TLabel, TValue)> for Field
FieldFrom(key, label, value) ==
    [DefaultField EXCEPT !.key = key, !.label = Some(label), !.value = value]

CodecValues == {ValueString("B12"), ValueInt(12), ValueFloat("1.5")}
CodecDates ==
    {None, Some(DefaultFieldDate),
     Some([DefaultFieldDate EXCEPT !.date_style = "Short", !.is_relative = TRUE])}
CodecNumbers == {None, Some([currency_code |-> "USD", number_style |-> "Decimal"])}
CodecFields ==
    {[FieldFrom("gate", "Gate", value) EXCEPT !.text_alignment = alignment] :
        value \in CodecValues, alignment \in {"Natural", "Right"}}
      \cup {[FieldFrom("gate", "Gate", ValueString("B12")) EXCEPT !.date = date, !.number = number] :
              date \in CodecDates, number \in CodecNumbers}

FieldLists == UNION {[1..n -> CodecFields] : n \in 0..MaxFields}
CodecStyles ==
    {[variant |-> variant,
      structure |-> [DefaultStructure EXCEPT
                        !.header_fields = fields,
                        !.transit_type = IF variant = "BoardingPass" THEN Some("Air") ELSE None]] :
        variant \in StyleVariants, fields \in FieldLists}
CodecVisuals ==
    {None, Some(DefaultVisualAppearance),
     Some([DefaultVisualAppearance EXCEPT !.background_color = Some("rgb(0, 0, 0)"),
                                          !.suppress_strip_shine = TRUE])}
CodecWebServices ==
    {None, Some([authentication_token |-> "token", web_service_url |-> "https://example.com"])}
CodecNFCs ==
    {None, Some([message |-> "hello", encryption_public_key |-> None]),
     Some([message |-> "hello", encryption_public_key |-> Some("key")])}

CodecPasses ==
    {[description |-> "Boarding pass", format_version |-> 1, organization_name |-> "Org",
      pass_type_identifier |-> "pass.org.example", serial_number |-> "1",
      team_identifier |-> "TEAM", app_launch_url |-> None,
      associated_store_identifiers |-> <<>>, user_info |-> EmptyMap,
      expiration_date |-> None, voided |-> voided, max_distance |-> None,
      relevant_date |-> None, style |-> style, visual |-> visual,
      web_service |-> web_service, nfc |-> nfc] :
        voided \in BOOLEAN, style \in CodecStyles, visual \in CodecVisuals,
        web_service \in CodecWebServices, nfc \in CodecNFCs}

(***************************************************************************)
(* Codec: serde_json::to_string(&pass) and serde_json::from_str on the     *)
(* result, as the tests ser_pass_example and de_pass_example run them      *)
(***************************************************************************)
\* the pipeline's variables while no PassSource exists
NoPipeline ==
    /\ source_dir = EmptyMap
    /\ pass_content = None
    /\ manifest = EmptyMap
    /\ tmp = NoTmp
    /\ pc = "idle"
    /\ pending = NotCalled
    /\ result = NotCalled
    /\ stages = <<>>
    /\ supplied = FALSE

InitCodec ==
    /\ NoPipeline
    /\ builder = Off /\ builds = Off /\ tmp_root = EmptyMap /\ colour = Off
    /\ \E pass \in CodecPasses : codec = [phase |-> "pass", pass |-> pass]

Encode ==
    /\ codec.phase = "pass"
    /\ codec' = [phase |-> "encoded", pass |-> codec.pass, json |-> ser_Pass(codec.pass)]
    /\ UNCHANGED <<pipeline_vars, builder, builds, tmp_root, colour>>

Decode ==
    /\ codec.phase = "encoded"
    /\ codec' = [phase |-> "decoded", pass |-> codec.pass, json |-> codec.json,
                 decoded |-> de_Pass(codec.json)]
    /\ UNCHANGED <<pipeline_vars, builder, builds, tmp_root, colour>>

NextCodec ==
    \/ Encode
    \/ Decode

SpecCodec == InitCodec /\ [][NextCodec]_vars

\* C12: decoding the encoding of a pass gives back a pass equal to it.
C12_RoundTrip ==
    codec.phase = "decoded" => codec.decoded = Some(codec.pass)

\* the keys a JSON object holds out of the given ones
KeysOf(map, keys) == DOMAIN map \cap keys
VisualKeys ==
    {"backgroundColor", "foregroundColor", "groupingIdentifier", "labelColor", "logoText",
     "suppressStripShine"}
DateKeys == {"dateStyle", "ignoresTimeZone", "isRelative", "timeStyle"}
NumberKeys == {"currencyCode", "numberStyle"}

\* C13: the encoding holds no key for an optional part that is at its default (a false
\* flag, a natural alignment, an absent option, an empty list), and the decoding of the
\* encoding succeeds and gives those parts their defaults again.
C13_DefaultsOmittedAndRestored ==
    codec.phase = "decoded" =>
        LET pass == codec.pass
            json == codec.json
            structure == pass.style.structure
        IN /\ ~pass.voided => "voided" \notin DOMAIN json
           /\ pass.associated_store_identifiers = <<>> =>
                "associatedStoreIdentifiers" \notin DOMAIN json
           /\ ~pass.visual.some => KeysOf(json, VisualKeys) = {}
           /\ ~pass.web_service.some =>
                KeysOf(json, {"authenticationToken", "webServiceURL"}) = {}
           /\ ~pass.nfc.some => "nfc" \notin DOMAIN json
           /\ (pass.nfc.some /\ ~pass.nfc.value.encryption_public_key.some) =>
                "encryptionPublicKey" \notin DOMAIN json["nfc"].payload
           /\ \A i \in 1..Len(structure.header_fields) :
                 LET field == structure.header_fields[i]
                     doc == json[StyleKey(pass.style.variant)].payload["headerFields"].payload[i].payload
                 IN /\ field.text_alignment = "Natural" => "textAlignment" \notin DOMAIN doc
                    /\ ~field.date.some => KeysOf(doc, DateKeys) = {}
                    /\ ~field.number.some => KeysOf(doc, NumberKeys) = {}
           /\ codec.decoded.some
           /\ LET decoded == codec.decoded.value
              IN /\ ~pass.voided => ~decoded.voided
                 /\ ~pass.visual.some => decoded.visual = None
                 /\ ~pass.web_service.some => decoded.web_service = None
                 /\ ~pass.nfc.some => decoded.nfc = None
                 /\ Len(decoded.style.structure.header_fields) = Len(structure.header_fields)
                 /\ \A i \in 1..Len(structure.header_fields) :
                       LET field == structure.header_fields[i]
                           back == decoded.style.structure.header_fields[i]
                       IN /\ field.text_alignment = "Natural" => back.text_alignment = "Natural"
                          /\ ~field.date.some => back.date = None
                          /\ ~field.number.some => back.number = None

(***************************************************************************)
(* Builder: one PassBuilder from PassBuilder::new to its finish_<style>    *)
(* call (src/src/pass.rs).  Every method takes self by value and returns   *)
(* it, so a chain of calls is a sequence of steps on one value.  The       *)
(* setters left out (app_launch_url, add_associated_store_identifier,      *)
(* add_user_info, expiration_date, max_distance, relevant_date,            *)
(* foreground_color, grouping_identifier, label_color, logo_text) assign   *)
(* one field each, as description and background_color do.                 *)
(***************************************************************************)
\* PassBuilder::new(serial_number, pass_type_identifier, team_identifier)
NewPassBuilder(serial_number, pass_type_identifier, team_identifier) ==
    [serial_number |-> serial_number, pass_type_identifier |-> pass_type_identifier,
     team_identifier |-> team_identifier, organization_name |-> None, description |-> None,
     structure |-> DefaultStructure, app_launch_url |-> None,
     associated_store_identifiers |-> <<>>, user_info |-> EmptyMap,
     expiration_date |-> None, voided |-> FALSE, max_distance |-> None,
     relevant_date |-> None, visual |-> DefaultVisualAppearance, web_service |-> None,
     nfc |-> None]

\* the fields the add_<group>_field calls are given
BuilderFields == {FieldFrom("gate", "Gate", ValueString("B12"))}

\* for the properties: the fields each add_<group>_field call was given so far, in call
\* order
NoFieldsGiven ==
    [auxiliary |-> <<>>, back |-> <<>>, header |-> <<>>, primary |-> <<>>, secondary |-> <<>>]

unwrap_or_default(opt) == IF opt.some THEN opt.value ELSE ""

InitBuilder ==
    /\ NoPipeline
    /\ codec = Off /\ builds = Off /\ tmp_root = EmptyMap /\ colour = Off
    /\ builder = [phase |-> "building",
                  self |-> NewPassBuilder("001", "pass.com.example", "CDHE9L6U22"),
                  given |-> NoFieldsGiven]

Building == builder.phase = "building"
builder_frame == UNCHANGED <<pipeline_vars, codec, builds, tmp_root, colour>>

organization_name ==
    /\ Building
    /\ builder' = [builder EXCEPT !.self.organization_name = Some("Org")]
    /\ builder_frame

description ==
    /\ Building
    /\ builder' = [builder EXCEPT !.self.description = Some("Boarding pass")]
    /\ builder_frame

voided ==
    /\ Building
    /\ builder' = [builder EXCEPT !.self.voided = TRUE]
    /\ builder_frame

add_auxiliary_field ==
    /\ Building
    /\ Len(builder.self.structure.auxiliary_fields) < MaxFields
    /\ \E field \in BuilderFields :
          builder' = [builder EXCEPT !.self.structure.auxiliary_fields = Append(@, field),
                                     !.given.auxiliary = Append(@, field)]
    /\ builder_frame

add_back_field ==
    /\ Building
    /\ Len(builder.self.structure.back_fields) < MaxFields
    /\ \E field \in BuilderFields :
          builder' = [builder EXCEPT !.self.structure.back_fields = Append(@, field),
                                     !.given.back = Append(@, field)]
    /\ builder_frame

add_header_field ==
    /\ Building
    /\ Len(builder.self.structure.header_fields) < MaxFields
    /\ \E field \in BuilderFields :
          builder' = [builder EXCEPT !.self.structure.header_fields = Append(@, field),
                                     !.given.header = Append(@, field)]
    /\ builder_frame

add_primary_field ==
    /\ Building
    /\ Len(builder.self.structure.primary_fields) < MaxFields
    /\ \E field \in BuilderFields :
          builder' = [builder EXCEPT !.self.structure.primary_fields = Append(@, field),
                                     !.given.primary = Append(@, field)]
    /\ builder_frame

\* pushes to auxiliary_fields, as the source does
add_secondary_field ==
    /\ Building
    /\ Len(builder.self.structure.auxiliary_fields) < MaxFields
    /\ \E field \in BuilderFields :
          builder' = [builder EXCEPT !.self.structure.auxiliary_fields = Append(@, field),
                                     !.given.secondary = Append(@, field)]
    /\ builder_frame

background_color ==
    /\ Building
    /\ builder' = [builder EXCEPT !.self.visual.background_color = Some("rgb(0, 0, 0)")]
    /\ builder_frame

suppress_strip_shine ==
    /\ Building
    /\ builder' = [builder EXCEPT !.self.visual.suppress_strip_shine = TRUE]
    /\ builder_frame

web_service ==
    /\ Building
    /\ builder' = [builder EXCEPT !.self.web_service =
                      Some([authentication_token |-> "token",
                            web_service_url |-> "https://example.com"])]
    /\ builder_frame

nfc ==
    /\ Building
    /\ \E key \in {None, Some("key")} :
          builder' = [builder EXCEPT !.self.nfc =
                         Some([message |-> "hello", encryption_public_key |-> key])]
    /\ builder_frame

\* fn build(self, style: Style) -> Pass
build(self, style) ==
    [format_version |-> 1, serial_number |-> self.serial_number,
     pass_type_identifier |-> self.pass_type_identifier,
     team_identifier |-> self.team_identifier,
     organization_name |-> unwrap_or_default(self.organization_name),
     description |-> unwrap_or_default(self.description),
     app_launch_url |-> self.app_launch_url,
     associated_store_identifiers |-> self.associated_store_identifiers,
     user_info |-> self.user_info, expiration_date |-> self.expiration_date,
     voided |-> self.voided, max_distance |-> self.max_distance,
     relevant_date |-> self.relevant_date, style |-> style, visual |-> Some(self.visual),
     web_service |-> self.web_service, nfc |-> self.nfc]

\* what a finish_<style> call leaves: the Pass it returned and, for the properties, the
\* name of the call
Finished(call, pass) == [phase |-> "finished", finished_by |-> call, pass |-> pass]

finish_boarding_pass ==
    /\ Building
    /\ \E transit_type \in TransitTypes :
          LET structure == [builder.self.structure EXCEPT !.transit_type = Some(transit_type)]
          IN builder' = Finished("finish_boarding_pass",
                                 build(builder.self, [variant |-> "BoardingPass",
                                                      structure |-> structure]))
    /\ builder_frame

finish_coupon_tagged ==
    /\ Building
    /\ LET structure == [builder.self.structure EXCEPT !.transit_type = Some("Generic")]
       IN builder' = Finished("finish_coupon",
                              build(builder.self, [variant |-> "Coupon", structure |-> structure]))
    /\ builder_frame
finish_coupon ==
    /\ Building
    /\ LET structure == builder.self.structure
       IN builder' = Finished("finish_coupon",
                              build(builder.self, [variant |-> "Coupon", structure |-> structure]))
    /\ builder_frame

finish_event_ticket ==
    /\ Building
    /\ LET structure == builder.self.structure
       IN builder' = Finished("finish_event_ticket",
                              build(builder.self, [variant |-> "EventTicket",
                                                   structure |-> structure]))
    /\ builder_frame

finish_generic ==
    /\ Building
    /\ LET structure == builder.self.structure
       IN builder' = Finished("finish_generic",
                              build(builder.self, [variant |-> "Generic", structure |-> structure]))
    /\ builder_frame

finish_store_card ==
    /\ Building
    /\ LET structure == builder.self.structure
       IN builder' = Finished("finish_store_card",
                              build(builder.self, [variant |-> "StoreCard",
                                                   structure |-> structure]))
    /\ builder_frame

NextBuilder ==
    \/ organization_name
    \/ description
    \/ voided
    \/ add_auxiliary_field
    \/ add_back_field
    \/ add_header_field
    \/ add_primary_field
    \/ add_secondary_field
    \/ background_color
    \/ suppress_strip_shine
    \/ web_service
    \/ nfc
    \/ finish_boarding_pass
    \/ finish_coupon
    \/ finish_event_ticket
    \/ finish_generic
    \/ finish_store_card

SpecBuilder == InitBuilder /\ [][NextBuilder]_vars

\* the style keys of a pass's encoding
StyleKeys == {StyleKey(variant) : variant \in StyleVariants}

\* C14: a finished Pass has exactly one style variant, the one of the finish_<style> call
\* that made it, and carries a transit type if and only if that call was
\* finish_boarding_pass.
C14_TransitTypeOnlyOnBoardingPass ==
    builder.phase = "finished" =>
        LET style == builder.pass.style
        IN /\ style.variant \in StyleVariants
           /\ Cardinality(KeysOf(ser_Pass(builder.pass), StyleKeys)) = 1
           /\ style.variant = "BoardingPass" <=> builder.finished_by = "finish_boarding_pass"
           /\ style.structure.transit_type.some <=> builder.finished_by = "finish_boarding_pass"
           /\ style.variant # "BoardingPass" =>
                "transitType" \notin DOMAIN ser_Pass(builder.pass)[StyleKey(style.variant)].payload

\* a boarding pass with fields and one of the other styles' calls both happen
C14_Witness ==
    /\ builder.phase = "finished"
    /\ builder.finished_by = "finish_boarding_pass"
    /\ builder.pass.style.structure.transit_type = Some("Train")
    /\ builder.pass.style.structure.header_fields # <<>>
    /\ builder.pass.voided

(***************************************************************************)
(* Concurrent: build_pkpass running on several PassSource values at once   *)
(* (src/src/lib.rs).  builds[s] is the PassSource s with the call it has   *)
(* in flight, tmp_root the directories under std::env::temp_dir(), where   *)
(* TempDir::new("passsource") creates its directory.  The source           *)
(* directories are only read.                                              *)
(***************************************************************************)
\* how many names TempDir::new can draw for a directory
NumTmpNames == 2

Sources == {"a", "b"}
TmpNames == {"passsource." \o ToString(i) : i \in 1..NumTmpNames}

\* the source directory of each PassSource: one with a pass file, one without; both hold
\* the asset, with different contents
SourceDirOf(s) ==
    IF s = "a"
    THEN [n \in {PassFileName, AssetName} |->
            IF n = PassFileName THEN File(to_string_pretty([serial_number |-> "1"]))
            ELSE File("png")]
    ELSE [n \in {AssetName} |-> File("")]

InitConcurrent ==
    /\ NoPipeline
    /\ codec = Off /\ builder = Off /\ colour = Off
    /\ tmp_root = EmptyMap
    /\ builds = [s \in Sources |->
                    [source_dir |-> SourceDirOf(s), pass_content |-> None,
                     manifest |-> EmptyMap, tmp |-> None, pc |-> "idle",
                     pending |-> NotCalled, result |-> NotCalled]]

concurrent_frame == UNCHANGED <<pipeline_vars, codec, builder, colour>>

\* the working directory of the call s has in flight
TmpOf(s) == tmp_root[builds[s].tmp.value]

add_pass_of(s) ==
    /\ builds[s].pc = "idle"
    /\ \E pass \in Passes : builds' = [builds EXCEPT ![s].pass_content = Some(pass)]
    /\ UNCHANGED tmp_root
    /\ concurrent_frame

resolve_pass_content_of(s) ==
    /\ builds[s].pc = "idle"
    /\ LET self == builds[s]
       IN IF self.pass_content = None /\ PassFileName \in DOMAIN self.source_dir
          THEN LET parsed == from_slice(self.source_dir[PassFileName].content)
               IN IF parsed.ok
                  THEN builds' = [builds EXCEPT ![s].pass_content = Some(parsed.pass),
                                                ![s].pending = Running,
                                                ![s].pc = "create_tmp_dir"]
                  ELSE builds' = [builds EXCEPT
                                     ![s].pending = Err("CantParsePassFile", parsed.cause),
                                     ![s].pc = "return"]
          ELSE builds' = [builds EXCEPT ![s].pending = Running, ![s].pc = "create_tmp_dir"]
    /\ UNCHANGED tmp_root
    /\ concurrent_frame

\* create_tmp_dir on one fixed path that is reused when it exists
create_tmp_dir_shared(s) ==
    /\ builds[s].pc = "create_tmp_dir"
    /\ LET name == CHOOSE n \in TmpNames : TRUE
       IN /\ tmp_root' = IF name \in DOMAIN tmp_root THEN tmp_root
                         ELSE Put(tmp_root, name, EmptyMap)
          /\ builds' = [builds EXCEPT ![s].tmp = Some(name), ![s].pc = "copy_source_files_to"]
    /\ concurrent_frame

\* TempDir::new("passsource"): creates a directory under a name no entry of the
\* temporary directory has (create_dir fails on an existing name and another name is
\* drawn), or fails
create_tmp_dir_of(s) ==
    /\ builds[s].pc = "create_tmp_dir"
    /\ \/ \E name \in TmpNames \ DOMAIN tmp_root :
            /\ tmp_root' = Put(tmp_root, name, EmptyMap)
            /\ builds' = [builds EXCEPT ![s].tmp = Some(name),
                                        ![s].pc = "copy_source_files_to"]
       \/ /\ builds' = [builds EXCEPT ![s].pending = Err("CantCreateTempDir", ""),
                                      ![s].pc = "return"]
          /\ UNCHANGED tmp_root
    /\ concurrent_frame

copy_source_files_to_of(s) ==
    /\ builds[s].pc = "copy_source_files_to"
    /\ \E listed \in BOOLEAN : \E unreadable \in SUBSET DOMAIN builds[s].source_dir :
       \E copied \in SUBSET DOMAIN builds[s].source_dir :
         LET walked == walk(builds[s].source_dir, listed, unreadable, copied)
             staged == [n \in DOMAIN TmpOf(s) \cup DOMAIN walked.files |->
                            IF n \in DOMAIN walked.files THEN walked.files[n] ELSE TmpOf(s)[n]]
         IN /\ tmp_root' = [tmp_root EXCEPT ![builds[s].tmp.value] = staged]
            /\ IF walked.ok
               THEN builds' = [builds EXCEPT ![s].pc = "write_pass_file_to"]
               ELSE builds' = [builds EXCEPT ![s].pending = Err("CantCopySourceToTemp", ""),
                                             ![s].pc = "return"]
    /\ concurrent_frame

write_pass_file_to_of(s) ==
    /\ builds[s].pc = "write_pass_file_to"
    /\ \E written \in BOOLEAN :
         IF PassFileName \notin DOMAIN builds[s].source_dir /\ builds[s].pass_content.some
         THEN IF ~written
              THEN /\ builds' = [builds EXCEPT
                                    ![s].pending = Err("CantWritePassFile", "io error"),
                                    ![s].pc = "return"]
                   /\ UNCHANGED tmp_root
              ELSE /\ tmp_root' = [tmp_root EXCEPT ![builds[s].tmp.value] =
                                      Put(@, PassFileName,
                                          to_string_pretty(builds[s].pass_content.value))]
                   /\ builds' = [builds EXCEPT ![s].pc = "calculate_hashes_of"]
         ELSE /\ builds' = [builds EXCEPT ![s].pc = "calculate_hashes_of"]
              /\ UNCHANGED tmp_root
    /\ concurrent_frame

calculate_hashes_of_of(s) ==
    /\ builds[s].pc = "calculate_hashes_of"
    /\ \E listed \in BOOLEAN : \E unreadable \in SUBSET DOMAIN TmpOf(s) :
         LET hashed == enumerate(TmpOf(s), listed, unreadable)
         IN IF hashed.ok
            THEN builds' = [builds EXCEPT ![s].manifest = hashed.manifest,
                                          ![s].pending = Ok, ![s].pc = "return"]
            ELSE builds' = [builds EXCEPT ![s].pending = Err("CantCalculateHashes", ""),
                                          ![s].pc = "return"]
    /\ UNCHANGED tmp_root
    /\ concurrent_frame

\* the call returns: its TempDir, if it got one, is dropped and the directory removed
build_pkpass_return_of(s) ==
    /\ builds[s].pc = "return"
    /\ tmp_root' = IF builds[s].tmp.some
                   THEN [n \in DOMAIN tmp_root \ {builds[s].tmp.value} |-> tmp_root[n]]
                   ELSE tmp_root
    /\ builds' = [builds EXCEPT ![s].tmp = None, ![s].result = builds[s].pending,
                                ![s].pending = NotCalled, ![s].pc = "idle"]
    /\ concurrent_frame

NextConcurrent ==
    \E s \in Sources :
        \/ add_pass_of(s)
        \/ resolve_pass_content_of(s)
        \/ create_tmp_dir_of(s)
        \/ copy_source_files_to_of(s)
        \/ write_pass_file_to_of(s)
        \/ calculate_hashes_of_of(s)
        \/ build_pkpass_return_of(s)

SpecConcurrent == InitConcurrent /\ [][NextConcurrent]_vars

\* C18: two builds in flight never hold the same working directory; a step of one build
\* leaves the other build's working directory as it is; and a manifest a build stores
\* holds exactly the files of its own source directory and its own pass, with the hashes
\* of their own contents.
C18_WorkspacesIsolated ==
    /\ [](\A s, t \in Sources :
            (s # t /\ builds[s].tmp.some /\ builds[t].tmp.some)
              => builds[s].tmp.value # builds[t].tmp.value)
    /\ [](\A s \in Sources : builds[s].tmp.some => builds[s].tmp.value \in DOMAIN tmp_root)
    /\ [][\A s, t \in Sources :
            (s # t /\ builds'[s] # builds[s] /\ builds[t].tmp.some)
              => /\ builds'[t] = builds[t]
                 /\ builds[t].tmp.value \in DOMAIN tmp_root'
                 /\ tmp_root'[builds[t].tmp.value] = tmp_root[builds[t].tmp.value]]_vars
    /\ [][\A s \in Sources :
            (builds[s].pc = "calculate_hashes_of" /\ builds'[s].pending = Ok)
              => LET own == builds[s].source_dir
                     names == DOMAIN own \cup
                                (IF builds[s].pass_content.some THEN {PassFileName} ELSE {})
                 IN /\ DOMAIN builds'[s].manifest = {DebugFmt(n) : n \in names}
                    /\ \A n \in names :
                          builds'[s].manifest[DebugFmt(n)] =
                            get_hash(IF n \in DOMAIN own THEN own[n].content
                                     ELSE to_string_pretty(builds[s].pass_content.value))]_vars

\* both builds hold a working directory with staged files, and one of them stores its
\* manifest while the other is still in flight
C18_Witness ==
    /\ builds["a"].pc = "return" /\ builds["a"].pending = Ok /\ builds["a"].tmp.some
    /\ builds["a"].manifest # EmptyMap
    /\ builds["b"].pc = "calculate_hashes_of"
    /\ builds["b"].tmp.some
    /\ DOMAIN tmp_root[builds["b"].tmp.value] # {}
    /\ tmp_root[builds["a"].tmp.value] # tmp_root[builds["b"].tmp.value]

\* C21: while a PassBuilder is being filled, each of its five field groups holds exactly
\* the fields its own add_<group>_field call was given, in call order; in particular the
\* secondary group holds the fields given to add_secondary_field.
C21_FieldsLandInNamedGroup ==
    builder.phase = "building" =>
        /\ builder.self.structure.auxiliary_fields = builder.given.auxiliary
        /\ builder.self.structure.back_fields = builder.given.back
        /\ builder.self.structure.header_fields = builder.given.header
        /\ builder.self.structure.primary_fields = builder.given.primary
        /\ builder.self.structure.secondary_fields = builder.given.secondary

(***************************************************************************)
(* Colour: pub fn rgb(r: u8, g: u8, b: u8) -> String (src/src/pass.rs)     *)
(***************************************************************************)
\* the components rgb is called with: 0..MaxComponent and the largest u8
MaxComponent == 3
Components == (0..MaxComponent) \cup {255}

\* format!("rgba({}, {}, {})", r, g, b): {} writes a u8 in decimal
rgb(r, g, b) == "rgba(" \o ToString(r) \o ", " \o ToString(g) \o ", " \o ToString(b) \o ")"

InitColour ==
    /\ NoPipeline
    /\ codec = Off /\ builder = Off /\ builds = Off /\ tmp_root = EmptyMap
    /\ \E r \in Components : \E g \in Components : \E b \in Components :
          colour = [phase |-> "called", r |-> r, g |-> g, b |-> b]

\* the call returns
rgb_return ==
    /\ colour.phase = "called"
    /\ colour' = [phase |-> "returned", r |-> colour.r, g |-> colour.g, b |-> colour.b,
                  text |-> rgb(colour.r, colour.g, colour.b)]
    /\ UNCHANGED <<pipeline_vars, codec, builder, builds, tmp_root>>

NextColour ==
    \/ rgb_return

SpecColour == InitColour /\ [][NextColour]_vars

\* C22: rgb(r, g, b) returns the text "rgb(r, g, b)": the name rgb, then the three
\* components in decimal, in that order.
C22_RgbTriple ==
    colour.phase = "returned" =>
        colour.text = "rgb(" \o ToString(colour.r) \o ", " \o ToString(colour.g) \o ", "
                        \o ToString(colour.b) \o ")"

====
